---------------------------- MODULE Spec2Model ----------------------------
(***************************************************************************)
(* Model of eis_toolkit.raster_processing.unifying: unify_raster_grids and *)
(* its worker _unify_raster_grids.                                         *)
(*                                                                         *)
(* World coordinates and pixel sizes are integers (fixed-point units), so  *)
(* the arithmetic of the snapping step is exact.  Python objects that are  *)
(* shared by reference (the metadata dicts) live in metaHeap and are       *)
(* referred to by their key.  rasterio's warp.calculate_default_transform  *)
(* and warp.reproject are external; they are modelled as deterministic     *)
(* functions of their arguments over a flat geometry in which two CRSs     *)
(* differ by a translation.                                                *)
(***************************************************************************)
EXTENDS Integers, Sequences, FiniteSets, TLC

\* ------------------------------------------------------------------ bounds
MaxOthers == 2   \* longest raster_list
MaxCoord == 2    \* other rasters' upper-left x lies in -MaxCoord..MaxCoord

\* ------------------------------------------------------------- arithmetic
Abs(x) == IF x < 0 THEN -x ELSE x

\* Python's floor division n // d (d # 0)
FloorDiv(n, d) == IF d > 0 THEN n \div d ELSE (-n) \div (-d)

\* math.ceil(n / d) (d # 0)
CeilDiv(n, d) == -FloorDiv(-n, d)

\* Python's float % : the result takes the sign of the divisor (m # 0)
PyMod(x, m) == IF m > 0 THEN x % m ELSE -((-x) % (-m))

\* ------------------------------------------------------------ value types
Affine(a, b, c, d, e, f) == [a |-> a, b |-> b, c |-> c, d |-> d, e |-> e, f |-> f]

Cells(shape) == (1..shape[1]) \X (1..shape[2]) \X (1..shape[3])

\* a band-major pixel array: shape (bands, rows, columns) and its cells
Array(shape, cellFn) == [shape |-> shape, cells |-> cellFn]

\* the pixel values of a test raster, distinct per raster tag and cell
PixelData(tag, count, height, width) ==
    Array(<<count, height, width>>,
          [p \in Cells(<<count, height, width>>) |-> tag + 100 * p[1] + 10 * p[2] + p[3]])

\* a value that is not a rasterio.io.DatasetReader
NotAHandle == [kind |-> "str"]

IsDatasetReader(x) == x.kind = "DatasetReader"

\* an open raster: the attributes the code reads, and what the external
\* capabilities do when handed this raster (fault)
Raster(crs, transform, width, height, count, nodata, tag, fault) ==
    [kind |-> "DatasetReader", crs |-> crs, transform |-> transform,
     width |-> width, height |-> height, count |-> count, nodata |-> nodata,
     data |-> PixelData(tag, count, height, width), fault |-> fault]

\* DatasetReader.meta: a fresh dict on every access
Meta(r) == [crs |-> r.crs, transform |-> r.transform, width |-> r.width,
            height |-> r.height, count |-> r.count, nodata |-> r.nodata]

\* DatasetReader.bounds of a raster: (left, bottom, right, top)
Bounds(r) ==
    LET t == r.transform
    IN  <<t.c, t.f + t.e * r.height, t.c + t.a * r.width, t.f>>

\* ----------------------------------------------------------------- inputs
\* base rasters: pixel size 4 or 3, on and off the lattice through the
\* world origin (one of them half a pixel off it), one with a negative x
\* pixel size
BaseRasters ==
    { Raster("A", Affine(4, 0, 0, 0, -4, 8), 2, 2, 1, -9, 1000, "none"),
      Raster("A", Affine(4, 0, 1, 0, -4, 6), 2, 1, 2, -9, 2000, "none"),
      Raster("A", Affine(3, 0, 0, 0, -3, 6), 1, 2, 1, 0, 3000, "none"),
      Raster("A", Affine(4, 0, 0, 0, -4, 6), 1, 2, 1, -9, 500, "none"),
      Raster("A", Affine(-4, 0, 8, 0, -4, 8), 2, 2, 1, -9, 4000, "none") }

\* other rasters: origins on both sides of zero, in the base CRS and in
\* another one, with their own sizes, band counts and nodata values; two
\* on which an external capability fails
OtherRasters ==
    { Raster("A", Affine(4, 0, x, 0, -4, 3 * x - 2), 1, 2, 1, -9, 5000 + 1000 * (x + MaxCoord), "none")
        : x \in -MaxCoord..MaxCoord }
    \cup
    { Raster("B", Affine(2, 0, x, 0, -2, 2 * x + 1), 2, 1, 2, -1, 20000 + 1000 * (x + MaxCoord), "none")
        : x \in -MaxCoord..MaxCoord }
    \cup
    { Raster("B", Affine(4, 0, 1, 0, -4, 7), 1, 1, 1, -9, 40000, "geodesy"),
      Raster("A", Affine(4, 0, 3, 0, -4, 5), 1, 1, 1, -9, 41000, "reproject") }

ResamplingMethods == {"nearest", "bilinear"}

SeqsUpTo(S, n) == UNION { [1..k -> S] : k \in 0..n }

\* what a caller may pass as raster_list: a list, or something else
RasterLists ==
    { [type |-> "list", items |-> s] : s \in SeqsUpTo(OtherRasters \cup {NotAHandle}, MaxOthers) }
    \cup { [type |-> "DatasetReader", items |-> <<>>] }

\* the lists a caller may pass along with a given base raster: those above,
\* and the list holding the base raster itself
RasterListsWith(base) ==
    RasterLists \cup
    (IF IsDatasetReader(base) THEN { [type |-> "list", items |-> <<base>>] } ELSE {})

\* ---------------------------------------------- external capabilities
\* the translation that takes coordinates of one CRS to another
CrsOffset(src_crs, dst_crs) ==
    IF src_crs = dst_crs THEN <<0, 0>>
    ELSE IF src_crs = "B" THEN <<5, 2>> ELSE <<-5, -2>>

\* warp.calculate_default_transform(src_crs, dst_crs, width, height,
\* left, bottom, right, top, resolution): the grid of the given resolution
\* whose upper-left corner is the reprojected upper-left corner of the
\* bounds; pixel counts are the extent over the resolution, rounded up
CalculateDefaultTransform(src_crs, dst_crs, width, height, bounds, resolution) ==
    LET off == CrsOffset(src_crs, dst_crs)
        left == bounds[1] + off[1]
        top == bounds[4] + off[2]
    IN  [transform |-> Affine(resolution[1], 0, left, 0, -resolution[2], top),
         width |-> CeilDiv(bounds[3] - bounds[1], resolution[1]),
         height |-> CeilDiv(bounds[4] - bounds[2], resolution[2])]

\* the source pixel (0-based row, column) under the centre of destination
\* cell (row, col); coordinates are doubled so that centres are integers
SourcePixel(src_crs, src_transform, dst_crs, dst_transform, row, col) ==
    LET off == CrsOffset(dst_crs, src_crs)
        x2 == 2 * dst_transform.c + (2 * col - 1) * dst_transform.a + 2 * off[1]
        y2 == 2 * dst_transform.f + (2 * row - 1) * dst_transform.e + 2 * off[2]
    IN  <<FloorDiv(y2 - 2 * src_transform.f, 2 * src_transform.e),
          FloorDiv(x2 - 2 * src_transform.c, 2 * src_transform.a)>>

\* the destination cells warp.reproject writes: those whose centre falls on
\* a source pixel that holds data
WrittenCells(source, src_crs, src_transform, src_nodata, destination, dst_crs, dst_transform) ==
    { p \in Cells(destination.shape) :
        LET s == SourcePixel(src_crs, src_transform, dst_crs, dst_transform, p[2], p[3])
        IN  /\ p[1] <= source.shape[1]
            /\ s[1] >= 0 /\ s[1] < source.shape[2]
            /\ s[2] >= 0 /\ s[2] < source.shape[3]
            /\ source.cells[<<p[1], s[1] + 1, s[2] + 1>>] # src_nodata }

\* the value a resampling kernel produces at a source pixel: nearest takes
\* the pixel itself, any other kernel blends it with its row neighbour
Resample(source, band, row0, col0, resampling) ==
    LET v == source.cells[<<band, row0 + 1, col0 + 1>>]
        n == IF col0 + 2 <= source.shape[3]
             THEN source.cells[<<band, row0 + 1, col0 + 2>>] ELSE v
    IN  IF resampling = "nearest" THEN v ELSE (v + n) \div 2

\* warp.reproject(...)[0]: the destination array with the covered cells
\* overwritten; every other cell keeps what the destination held
Reproject(source, src_crs, src_transform, src_nodata, destination, dst_crs, dst_transform, dst_nodata, resampling) ==
    LET written == WrittenCells(source, src_crs, src_transform, src_nodata,
                                destination, dst_crs, dst_transform)
    IN  Array(destination.shape,
              [p \in Cells(destination.shape) |->
                  IF p \in written
                  THEN LET s == SourcePixel(src_crs, src_transform, dst_crs, dst_transform, p[2], p[3])
                       IN  Resample(source, p[1], s[1], s[2], resampling)
                  ELSE destination.cells[p]])

\* ------------------------------------------------- _unify_raster_grids
\* line 22: dst_resolution = (transform.a, abs(transform.e))
DstResolution(base) == <<base.transform.a, Abs(base.transform.e)>>

\* variant of NeedsGridDerivation that ignores same_extent; C1 must not
\* survive it
NeedsGridDerivationAlways(sameExtent) == TRUE

\* line 31: the grid is derived per raster only when not clipping
NeedsGridDerivation(sameExtent) == ~sameExtent

\* variant of SnapCoord that rounds a tie up; C15 must not survive it
SnapCoordTieUp(raw, res) ==
    LET distance_to_grid == PyMod(raw, res)
    IN  IF 2 * distance_to_grid >= res
        THEN raw - distance_to_grid + res
        ELSE raw - distance_to_grid

\* variant of SnapCoord with a truncating remainder; C7 must not survive it
SnapCoordTruncating(raw, res) ==
    LET distance_to_grid == IF raw >= 0 THEN raw % Abs(res) ELSE -((-raw) % Abs(res))
    IN  IF 2 * distance_to_grid > res
        THEN raw - distance_to_grid + res
        ELSE raw - distance_to_grid

\* lines 37-48, one axis: distance to the grid, then snap to the nearer side
SnapCoord(raw, res) ==
    LET distance_to_grid == PyMod(raw, res)
    IN  IF 2 * distance_to_grid > res
        THEN raw - distance_to_grid + res
        ELSE raw - distance_to_grid

\* variant of SnapTransform that rebuilds the pixel sizes from the
\* resolution, losing the sign of e; C16 must not survive it
SnapTransformFromResolution(t, resolution) ==
    Affine(resolution[1], t.b, SnapCoord(t.c, resolution[1]),
           t.d, resolution[2], SnapCoord(t.f, resolution[2]))

\* lines 37-58: the raw transform with only c and f replaced
SnapTransform(t, resolution) ==
    Affine(t.a, t.b, SnapCoord(t.c, resolution[1]), t.d, t.e, SnapCoord(t.f, resolution[2]))

\* variant of FilledArray that leaves the fill out (zeroed memory); C8
\* must not survive it
ZeroedArray(shape, nodata) == Array(shape, [p \in Cells(shape) |-> 0])

\* lines 65-66: np.empty(shape) then fill(nodata)
FilledArray(shape, nodata) == Array(shape, [p \in Cells(shape) |-> nodata])

\* variant of InitialOutRasters whose first element refers to out_meta; C4
\* must not survive it
InitialOutRastersSharingMeta(base) == << [arr |-> base.data, meta |-> 2] >>

\* line 24: the base raster's array with its own copy of the metadata
\* (metaHeap key 1); line 25 makes out_meta (metaHeap key 2)
InitialOutRasters(base) == << [arr |-> base.data, meta |-> 1] >>

\* variant of AppendOut that inserts at the front; C5 must not survive it
PrependOut(outs, image) == <<[arr |-> image, meta |-> 2]>> \o outs

\* line 82: out_rasters.append((out_image, out_meta))
AppendOut(outs, image) == Append(outs, [arr |-> image, meta |-> 2])

\* variant of OnError that swallows the exception and goes on with the
\* next raster; C10 must not survive it
OnErrorSkip(err) == [pc |-> "loop", exception |-> "none"]

\* an exception raised inside the loop is not caught: the call ends
OnError(err) == [pc |-> "raised", exception |-> err]

\* variant of ValidationFails without the check for an empty list; C9 must
\* not survive it
ValidationFailsEmptyAllowed(base, list) ==
    IF ~IsDatasetReader(base) THEN TRUE
    ELSE IF list.type # "list" THEN TRUE
    ELSE ~(\A i \in 1..Len(list.items) : IsDatasetReader(list.items[i]))

\* lines 111-118
ValidationFails(base, list) ==
    IF ~IsDatasetReader(base) THEN TRUE
    ELSE IF list.type # "list" THEN TRUE
    ELSE IF ~(\A i \in 1..Len(list.items) : IsDatasetReader(list.items[i])) THEN TRUE
    ELSE Len(list.items) = 0

\* np.empty refuses a negative dimension
AllocFails(shape) == shape[1] < 0 \/ shape[2] < 0 \/ shape[3] < 0

\* ------------------------------------------------------------------ state
VARIABLES
    base_raster, raster_list, resampling_method, same_extent,  \* the arguments
    pc,              \* position in unify_raster_grids / _unify_raster_grids
    exception,       \* the exception the call ended with, or "none"
    result,          \* the returned list, <<>> while nothing is returned
    dst_crs, dst_width, dst_height, dst_transform, dst_resolution,
    metaHeap,        \* the metadata dicts: 1 is the first element's, 2 is out_meta
    out_rasters,     \* list of (array, key of a metadata dict)
    idx,             \* position of the loop in raster_list
    dst_array, src_array, out_image,
    reads,           \* read() calls so far: 0 is the base raster, i is raster_list[i]
    geodesyCalls,    \* calls of warp.calculate_default_transform so far
    reprojectCalls   \* calls of warp.reproject so far

args == <<base_raster, raster_list, resampling_method, same_extent>>
locals == <<dst_crs, dst_width, dst_height, dst_transform, dst_resolution,
            metaHeap, out_rasters, idx, dst_array, src_array, out_image>>
logs == <<reads, geodesyCalls, reprojectCalls>>
vars == <<args, pc, exception, result, locals, logs>>

NoArray == Array(<<0, 0, 0>>, <<>>)
NoTransform == Affine(0, 0, 0, 0, 0, 0)

Init ==
    /\ base_raster \in BaseRasters \cup {NotAHandle}
    /\ raster_list \in RasterListsWith(base_raster)
    /\ resampling_method \in ResamplingMethods
    /\ same_extent \in BOOLEAN
    /\ pc = "start"
    /\ exception = "none"
    /\ result = <<>>
    /\ dst_crs = "" /\ dst_width = 0 /\ dst_height = 0
    /\ dst_transform = NoTransform /\ dst_resolution = <<0, 0>>
    /\ metaHeap = <<>>
    /\ out_rasters = <<>>
    /\ idx = 0
    /\ dst_array = NoArray /\ src_array = NoArray /\ out_image = NoArray
    /\ reads = <<>> /\ geodesyCalls = <<>> /\ reprojectCalls = <<>>

\* the raster the loop is at
raster == raster_list.items[idx]

\* lines 111-120: the checks of unify_raster_grids
Validate ==
    /\ pc = "start"
    /\ IF ValidationFails(base_raster, raster_list)
       THEN /\ pc' = "raised"
            /\ exception' = "InvalidParameterValueException"
       ELSE /\ pc' = "setup"
            /\ UNCHANGED exception
    /\ UNCHANGED <<args, result, locals, logs>>

\* lines 18-25
Setup ==
    /\ pc = "setup"
    /\ dst_crs' = base_raster.crs
    /\ dst_width' = base_raster.width
    /\ dst_height' = base_raster.height
    /\ dst_transform' = base_raster.transform
    /\ dst_resolution' = DstResolution(base_raster)
    /\ out_rasters' = InitialOutRasters(base_raster)
    /\ metaHeap' = <<Meta(base_raster), Meta(base_raster)>>
    /\ reads' = Append(reads, 0)
    /\ pc' = "loop"
    /\ UNCHANGED <<args, exception, result, idx, dst_array, src_array, out_image,
                   geodesyCalls, reprojectCalls>>

\* line 27: the next raster of the list, and line 31
ForNext ==
    /\ pc = "loop"
    /\ idx < Len(raster_list.items)
    /\ idx' = idx + 1
    /\ pc' = IF NeedsGridDerivation(same_extent) THEN "grid" ELSE "alloc"
    /\ UNCHANGED <<args, exception, result, dst_crs, dst_width, dst_height, dst_transform,
                   dst_resolution, metaHeap, out_rasters, dst_array, src_array, out_image, logs>>

\* lines 84 and 120-121: the list is exhausted
Return ==
    /\ pc = "loop"
    /\ idx >= Len(raster_list.items)
    /\ result' = out_rasters
    /\ pc' = "done"
    /\ UNCHANGED <<args, exception, locals, logs>>

\* lines 32-62: the grid of this raster, snapped, written to out_meta
DeriveGrid ==
    /\ pc = "grid"
    /\ LET call == [src_crs |-> raster.crs, dst_crs |-> dst_crs,
                    width |-> raster.width, height |-> raster.height,
                    bounds |-> Bounds(raster), resolution |-> dst_resolution]
           raw == CalculateDefaultTransform(raster.crs, dst_crs, raster.width, raster.height,
                                            Bounds(raster), dst_resolution)
       IN  IF raster.fault = "geodesy"
           THEN /\ geodesyCalls' = Append(geodesyCalls,
                                          [args |-> call, outcome |-> "error", raw |-> raw])
                /\ pc' = OnError("CRSError").pc
                /\ exception' = OnError("CRSError").exception
                /\ UNCHANGED <<dst_transform, dst_width, dst_height, metaHeap>>
           ELSE /\ geodesyCalls' = Append(geodesyCalls,
                                          [args |-> call, outcome |-> "ok", raw |-> raw])
                /\ dst_transform' = SnapTransform(raw.transform, dst_resolution)
                /\ dst_width' = raw.width
                /\ dst_height' = raw.height
                /\ metaHeap' = [metaHeap EXCEPT ![2] =
                                  [@ EXCEPT !.transform = SnapTransform(raw.transform, dst_resolution),
                                            !.width = raw.width, !.height = raw.height]]
                /\ pc' = "alloc"
                /\ UNCHANGED exception
    /\ UNCHANGED <<args, result, dst_crs, dst_resolution, out_rasters, idx,
                   dst_array, src_array, out_image, reads, reprojectCalls>>

\* variant of Allocate that sizes the array by the raster's own band
\* count; C18 must not survive it
AllocateOwnBands ==
    /\ pc = "alloc"
    /\ LET shape == <<raster.count, dst_height, dst_width>>
       IN  IF AllocFails(shape)
           THEN /\ pc' = OnError("ValueError").pc
                /\ exception' = OnError("ValueError").exception
                /\ UNCHANGED dst_array
           ELSE /\ dst_array' = FilledArray(shape, Meta(base_raster).nodata)
                /\ pc' = "read"
                /\ UNCHANGED exception
    /\ UNCHANGED <<args, result, dst_crs, dst_width, dst_height, dst_transform, dst_resolution,
                   metaHeap, out_rasters, idx, src_array, out_image, logs>>

\* lines 65-66
Allocate ==
    /\ pc = "alloc"
    /\ LET shape == <<base_raster.count, dst_height, dst_width>>
       IN  IF AllocFails(shape)
           THEN /\ pc' = OnError("ValueError").pc
                /\ exception' = OnError("ValueError").exception
                /\ UNCHANGED dst_array
           ELSE /\ dst_array' = FilledArray(shape, Meta(base_raster).nodata)
                /\ pc' = "read"
                /\ UNCHANGED exception
    /\ UNCHANGED <<args, result, dst_crs, dst_width, dst_height, dst_transform, dst_resolution,
                   metaHeap, out_rasters, idx, src_array, out_image, logs>>

\* variant of ReadSource that reads the raster a second time; C19 must
\* not survive it
ReadSourceTwice ==
    /\ pc = "read"
    /\ src_array' = raster.data
    /\ reads' = Append(Append(reads, idx), idx)
    /\ pc' = "warp"
    /\ UNCHANGED <<args, exception, result, dst_crs, dst_width, dst_height, dst_transform,
                   dst_resolution, metaHeap, out_rasters, idx, dst_array, out_image,
                   geodesyCalls, reprojectCalls>>

\* line 68
ReadSource ==
    /\ pc = "read"
    /\ src_array' = raster.data
    /\ reads' = Append(reads, idx)
    /\ pc' = "warp"
    /\ UNCHANGED <<args, exception, result, dst_crs, dst_width, dst_height, dst_transform,
                   dst_resolution, metaHeap, out_rasters, idx, dst_array, out_image,
                   geodesyCalls, reprojectCalls>>

\* variant of CallReproject that passes the raster's own nodata value as
\* source nodata; C17 must not survive it
CallReprojectOwnNodata ==
    /\ pc = "warp"
    /\ LET call == [source |-> src_array, src_crs |-> raster.crs,
                    src_transform |-> raster.transform,
                    src_nodata |-> Meta(raster).nodata,
                    destination |-> dst_array, dst_crs |-> dst_crs,
                    dst_transform |-> dst_transform,
                    dst_nodata |-> Meta(base_raster).nodata,
                    resampling |-> resampling_method]
           image == Reproject(call.source, call.src_crs, call.src_transform, call.src_nodata,
                              call.destination, call.dst_crs, call.dst_transform,
                              call.dst_nodata, call.resampling)
       IN  IF raster.fault = "reproject"
           THEN /\ reprojectCalls' = Append(reprojectCalls,
                                            [args |-> call, outcome |-> "error", image |-> NoArray])
                /\ pc' = OnError("WarpOperationError").pc
                /\ exception' = OnError("WarpOperationError").exception
                /\ UNCHANGED <<dst_array, out_image>>
           ELSE /\ reprojectCalls' = Append(reprojectCalls,
                                            [args |-> call, outcome |-> "ok", image |-> image])
                /\ dst_array' = image
                /\ out_image' = image
                /\ pc' = "append"
                /\ UNCHANGED exception
    /\ UNCHANGED <<args, result, dst_crs, dst_width, dst_height, dst_transform, dst_resolution,
                   metaHeap, out_rasters, idx, src_array, reads, geodesyCalls>>

\* lines 70-80
CallReproject ==
    /\ pc = "warp"
    /\ LET call == [source |-> src_array, src_crs |-> raster.crs,
                    src_transform |-> raster.transform,
                    src_nodata |-> Meta(base_raster).nodata,
                    destination |-> dst_array, dst_crs |-> dst_crs,
                    dst_transform |-> dst_transform,
                    dst_nodata |-> Meta(base_raster).nodata,
                    resampling |-> resampling_method]
           image == Reproject(call.source, call.src_crs, call.src_transform, call.src_nodata,
                              call.destination, call.dst_crs, call.dst_transform,
                              call.dst_nodata, call.resampling)
       IN  IF raster.fault = "reproject"
           THEN /\ reprojectCalls' = Append(reprojectCalls,
                                            [args |-> call, outcome |-> "error", image |-> NoArray])
                /\ pc' = OnError("WarpOperationError").pc
                /\ exception' = OnError("WarpOperationError").exception
                /\ UNCHANGED <<dst_array, out_image>>
           ELSE /\ reprojectCalls' = Append(reprojectCalls,
                                            [args |-> call, outcome |-> "ok", image |-> image])
                /\ dst_array' = image
                /\ out_image' = image
                /\ pc' = "append"
                /\ UNCHANGED exception
    /\ UNCHANGED <<args, result, dst_crs, dst_width, dst_height, dst_transform, dst_resolution,
                   metaHeap, out_rasters, idx, src_array, reads, geodesyCalls>>

\* line 82
AppendResult ==
    /\ pc = "append"
    /\ out_rasters' = AppendOut(out_rasters, out_image)
    /\ pc' = "loop"
    /\ UNCHANGED <<args, exception, result, dst_crs, dst_width, dst_height, dst_transform,
                   dst_resolution, metaHeap, idx, dst_array, src_array, out_image, logs>>

Next ==
    \/ Validate
    \/ Setup
    \/ ForNext
    \/ Return
    \/ DeriveGrid
    \/ Allocate
    \/ ReadSource
    \/ CallReproject
    \/ AppendResult

Spec == Init /\ [][Next]_vars

\* ------------------------------------------------------------ properties
\* the descriptor of element i of the returned list, as the caller sees it
Descriptor(i) == metaHeap[result[i].meta]

\* the raw grid the geodesy capability returned to the running iteration
RawGrid == geodesyCalls[Len(geodesyCalls)].raw

\* the cells reprojection call i wrote
WrittenBy(i) ==
    LET a == reprojectCalls[i].args
    IN  WrittenCells(a.source, a.src_crs, a.src_transform, a.src_nodata,
                     a.destination, a.dst_crs, a.dst_transform)

\* the arguments the claims call invalid
BadArguments ==
    \/ ~IsDatasetReader(base_raster)
    \/ raster_list.type # "list"
    \/ \E i \in 1..Len(raster_list.items) : ~IsDatasetReader(raster_list.items[i])
    \/ raster_list.items = <<>>

\* C1: with same_extent = true the geodesy capability is never called, and
\* every returned element after the first has the base raster's width,
\* height and transform and an array of shape (base.count, base.height,
\* base.width).
C1_SameExtentUsesBaseGrid ==
    same_extent =>
        /\ geodesyCalls = <<>>
        /\ pc = "done" =>
             \A i \in 2..Len(result) :
                /\ Descriptor(i).width = base_raster.width
                /\ Descriptor(i).height = base_raster.height
                /\ Descriptor(i).transform = base_raster.transform
                /\ result[i].arr.shape =
                      <<base_raster.count, base_raster.height, base_raster.width>>

C1_Witness ==
    /\ pc = "done" /\ same_extent /\ Len(result) = 3
    /\ raster_list.items[1].width # base_raster.width
    /\ raster_list.items[2].crs # base_raster.crs

\* C2: with same_extent = false, when the call returns, the descriptor of
\* every element after the first holds the width, height and transform of
\* the target grid that was derived for its own raster and used for its
\* array, so the array has shape (base.count, descriptor.height,
\* descriptor.width).
C2_DescriptorIsOwnTargetGrid ==
    (pc = "done" /\ ~same_extent) =>
        \A i \in 2..Len(result) :
            LET raw == geodesyCalls[i - 1].raw
                used == reprojectCalls[i - 1].args
            IN  /\ Descriptor(i).transform = SnapTransform(raw.transform, dst_resolution)
                /\ Descriptor(i).transform = used.dst_transform
                /\ Descriptor(i).width = raw.width
                /\ Descriptor(i).height = raw.height
                /\ result[i].arr.shape =
                      <<base_raster.count, Descriptor(i).height, Descriptor(i).width>>

\* the target grid of one raster: lines 31-62 for that raster alone
TargetGridAlone(r) ==
    IF NeedsGridDerivation(same_extent)
    THEN LET raw == CalculateDefaultTransform(r.crs, base_raster.crs, r.width, r.height,
                                              Bounds(r), DstResolution(base_raster))
         IN  [transform |-> SnapTransform(raw.transform, DstResolution(base_raster)),
              width |-> raw.width, height |-> raw.height]
    ELSE [transform |-> base_raster.transform, width |-> base_raster.width,
          height |-> base_raster.height]

\* the second element of the call with the one-element list [r]: its array
\* and its descriptor
UnifiedAlone(r) ==
    LET g == TargetGridAlone(r)
        nodata == Meta(base_raster).nodata
    IN  [arr |-> Reproject(r.data, r.crs, r.transform, nodata,
                           FilledArray(<<base_raster.count, g.height, g.width>>, nodata),
                           base_raster.crs, g.transform, nodata, resampling_method),
         descriptor |-> [Meta(base_raster) EXCEPT !.transform = g.transform,
                                                  !.width = g.width, !.height = g.height]]

\* C3: the element returned for raster_list[i], array and descriptor, is
\* the one the call returns for that raster alone, whatever else is in the
\* list.
C3_ElementsIndependent ==
    pc = "done" =>
        \A i \in 1..Len(raster_list.items) :
            /\ result[i + 1].arr = UnifiedAlone(raster_list.items[i]).arr
            /\ Descriptor(i + 1) = UnifiedAlone(raster_list.items[i]).descriptor

\* C4: the first element is the base raster's array with a copy of the
\* base raster's own metadata, from the moment it is built until the call
\* has returned, whatever is done for the other rasters.
C4_FirstElementIsBase ==
    /\ Len(out_rasters) >= 1 =>
          /\ out_rasters[1].arr = base_raster.data
          /\ metaHeap[out_rasters[1].meta] = Meta(base_raster)
    /\ pc = "done" =>
          /\ result[1].arr = base_raster.data
          /\ Descriptor(1) = Meta(base_raster)

C4_Witness ==
    /\ pc = "done" /\ ~same_extent /\ Len(result) = 3
    /\ metaHeap[2].transform # base_raster.transform
    /\ metaHeap[2].width # base_raster.width

\* C5: a returned list has len(raster_list) + 1 elements: the base raster
\* first, then for each i the array reprojected from raster_list[i], in the
\* order of the list.
C5_ResultOrder ==
    pc = "done" =>
        /\ Len(result) = Len(raster_list.items) + 1
        /\ result[1].arr = base_raster.data
        /\ reads = [j \in 1..Len(result) |-> j - 1]
        /\ \A i \in 1..Len(raster_list.items) :
              /\ reprojectCalls[i].args.source = raster_list.items[i].data
              /\ reprojectCalls[i].args.src_transform = raster_list.items[i].transform
              /\ result[i + 1].arr = reprojectCalls[i].image

C5_Witness ==
    /\ pc = "done" /\ Len(result) = 3
    /\ raster_list.items[1] # raster_list.items[2]
    /\ result[2].arr # result[3].arr

\* C6: with same_extent = false the snapped upper-left corner of a target
\* grid lies on the base raster's lattice: on each axis its distance from
\* the base raster's origin is a whole number of base pixels.
C6_SnappedOnBaseLattice ==
    (pc = "alloc" /\ ~same_extent) =>
        /\ PyMod(dst_transform.c - base_raster.transform.c, dst_resolution[1]) = 0
        /\ PyMod(dst_transform.f - base_raster.transform.f, dst_resolution[2]) = 0

\* C7: for a resolution r > 0 the snapped coordinate is at most r/2 from
\* the raw coordinate and is a multiple of r, on the X and on the Y axis,
\* for raw coordinates of either sign.
C7_SnapNearestLatticePoint ==
    (pc = "alloc" /\ ~same_extent) =>
        /\ dst_resolution[1] > 0 =>
              /\ 2 * Abs(dst_transform.c - RawGrid.transform.c) <= dst_resolution[1]
              /\ PyMod(dst_transform.c, dst_resolution[1]) = 0
        /\ dst_resolution[2] > 0 =>
              /\ 2 * Abs(dst_transform.f - RawGrid.transform.f) <= dst_resolution[2]
              /\ PyMod(dst_transform.f, dst_resolution[2]) = 0

C7_Witness ==
    /\ pc = "alloc" /\ ~same_extent /\ dst_resolution[1] > 0
    /\ RawGrid.transform.c < 0 /\ dst_transform.c > RawGrid.transform.c
    /\ RawGrid.transform.f < 0 /\ dst_transform.f # RawGrid.transform.f

\* C8: the destination array handed to the reprojection capability holds
\* the base raster's nodata value in every cell, and in the returned array
\* every cell reprojection did not write still holds exactly that value.
C8_UnwrittenCellsAreNodata ==
    \A i \in 1..Len(reprojectCalls) :
        /\ \A p \in Cells(reprojectCalls[i].args.destination.shape) :
              reprojectCalls[i].args.destination.cells[p] = base_raster.nodata
        /\ pc = "done" =>
              \A p \in Cells(result[i + 1].arr.shape) \ WrittenBy(i) :
                  result[i + 1].arr.cells[p] = base_raster.nodata

C8_Witness ==
    /\ pc = "done" /\ Len(result) >= 2
    /\ WrittenBy(1) # {}
    /\ Cells(result[2].arr.shape) \ WrittenBy(1) # {}
    /\ base_raster.nodata # 0

\* C9: with an invalid base raster, a raster_list that is not a list, an
\* invalid element in it or an empty list, the call raises
\* InvalidParameterValueException before anything is read, derived or
\* reprojected, and returns nothing.
C9_InvalidArgumentsRaise ==
    (BadArguments /\ pc # "start") =>
        /\ pc = "raised"
        /\ exception = "InvalidParameterValueException"
        /\ reads = <<>> /\ geodesyCalls = <<>> /\ reprojectCalls = <<>>
        /\ out_rasters = <<>> /\ result = <<>>

C9_Witness ==
    /\ pc = "raised" /\ IsDatasetReader(base_raster)
    /\ Len(raster_list.items) = 2
    /\ IsDatasetReader(raster_list.items[1])
    /\ ~IsDatasetReader(raster_list.items[2])

\* C10: when the geodesy or the reprojection capability fails on
\* raster_list[k], the call ends with that error and returns nothing; the
\* failed call is the last call of its capability, and no raster after
\* raster_list[k] is read or reprojected.
C10_CapabilityFailureIsFatal ==
    \A k \in 1..Len(raster_list.items) :
        LET geodesyFailed == k <= Len(geodesyCalls) /\ geodesyCalls[k].outcome = "error"
            reprojectFailed == k <= Len(reprojectCalls) /\ reprojectCalls[k].outcome = "error"
        IN  (geodesyFailed \/ reprojectFailed) =>
                /\ pc = "raised"
                /\ geodesyFailed => exception = "CRSError"
                /\ reprojectFailed => exception = "WarpOperationError"
                /\ result = <<>>
                /\ idx = k
                /\ Len(geodesyCalls) <= k /\ Len(reprojectCalls) <= k
                /\ \A j \in 1..Len(reads) : reads[j] <= k
                /\ geodesyFailed => (Len(reprojectCalls) < k /\ \A j \in 1..Len(reads) : reads[j] < k)

C10_Witness ==
    /\ pc = "raised" /\ exception = "WarpOperationError"
    /\ idx = 1 /\ Len(raster_list.items) = 2
    /\ Len(out_rasters) = 1 /\ Len(reprojectCalls) = 1

\* C11: unifying the base raster against itself with nearest resampling
\* returns, as second element, an array that holds the original pixel value
\* in every cell reprojection wrote, for either value of same_extent.
C11_SelfUnifyKeepsPixels ==
    (pc = "done" /\ raster_list.items = <<base_raster>> /\ resampling_method = "nearest") =>
        \A p \in WrittenBy(1) :
            /\ p \in DOMAIN base_raster.data.cells
            /\ result[2].arr.cells[p] = base_raster.data.cells[p]

\* C12: with same_extent = false, a pair that is in the result list is
\* never changed by a later step: it stays in its place with the same array,
\* and its descriptor keeps its width, height and transform.
C12_AppendedPairsFrozen ==
    [][~same_extent =>
         \A i \in 1..Len(out_rasters) :
            /\ i <= Len(out_rasters')
            /\ out_rasters'[i] = out_rasters[i]
            /\ metaHeap'[out_rasters[i].meta].width = metaHeap[out_rasters[i].meta].width
            /\ metaHeap'[out_rasters[i].meta].height = metaHeap[out_rasters[i].meta].height
            /\ metaHeap'[out_rasters[i].meta].transform = metaHeap[out_rasters[i].meta].transform]_vars

\* the bounds of a raster in the destination CRS: (left, bottom, right, top)
ReprojectedBounds(r, crs) ==
    LET off == CrsOffset(r.crs, crs)
        b == Bounds(r)
    IN  <<b[1] + off[1], b[2] + off[2], b[3] + off[1], b[4] + off[2]>>

Min(x, y) == IF x <= y THEN x ELSE y
Max(x, y) == IF x >= y THEN x ELSE y

\* the grid (transform, width, height) covers the rectangle bounds
GridCovers(t, width, height, bounds) ==
    LET x0 == t.c
        x1 == t.c + t.a * width
        y0 == t.f
        y1 == t.f + t.e * height
    IN  /\ Min(x0, x1) <= Min(bounds[1], bounds[3])
        /\ Max(x0, x1) >= Max(bounds[1], bounds[3])
        /\ Min(y0, y1) <= Min(bounds[2], bounds[4])
        /\ Max(y0, y1) >= Max(bounds[2], bounds[4])

\* C13: with same_extent = false, whenever the raw grid of the geodesy
\* capability covers the raster's reprojected bounds, so does the target
\* grid (snapped origin, raw width and height).
C13_SnappedGridCoversBounds ==
    (pc = "alloc" /\ ~same_extent) =>
        (GridCovers(RawGrid.transform, RawGrid.width, RawGrid.height,
                    ReprojectedBounds(raster, dst_crs))
            => GridCovers(dst_transform, dst_width, dst_height,
                          ReprojectedBounds(raster, dst_crs)))

\* C14: once the call has set dst_resolution it is (|a|, |e|) of the base
\* transform and positive on both axes, so the snapping step always runs
\* with a positive resolution.
C14_ResolutionPositive ==
    (~BadArguments /\ pc \notin {"start", "setup"}) =>
        /\ dst_resolution = <<Abs(base_raster.transform.a), Abs(base_raster.transform.e)>>
        /\ dst_resolution[1] > 0
        /\ dst_resolution[2] > 0

\* snapped is what the snapping rule gives for raw at resolution res > 0:
\* the remainder of raw above the lattice point below it lies in [0, res);
\* above res/2 the next lattice point is taken, otherwise the one below
SnappedByRule(raw, res, snapped) ==
    LET below == res * FloorDiv(raw, res)
        remainder == raw - below
    IN  /\ remainder >= 0 /\ remainder < res
        /\ snapped = IF 2 * remainder > res THEN below + res ELSE below

\* C15: on each axis with a positive resolution the snapped origin is the
\* raw origin minus its floor-mod remainder, plus the resolution exactly
\* when the remainder exceeds half the resolution; a tie goes down and an
\* origin on the lattice stays; X and Y follow the same rule separately.
C15_SnapRule ==
    (pc = "alloc" /\ ~same_extent) =>
        /\ dst_resolution[1] > 0 =>
              SnappedByRule(RawGrid.transform.c, dst_resolution[1], dst_transform.c)
        /\ dst_resolution[2] > 0 =>
              SnappedByRule(RawGrid.transform.f, dst_resolution[2], dst_transform.f)

C15_Witness ==
    /\ pc = "alloc" /\ ~same_extent /\ dst_resolution[1] > 0
    /\ 2 * PyMod(RawGrid.transform.c, dst_resolution[1]) = dst_resolution[1]
    /\ dst_transform.c < RawGrid.transform.c
    /\ PyMod(RawGrid.transform.f, dst_resolution[2]) = 0
    /\ dst_transform.f = RawGrid.transform.f

\* C16: with same_extent = false the target transform has the raw
\* transform's a, b, d and e (so e keeps its sign), and the target width and
\* height, also as written to out_meta, are the raw width and height.
C16_OnlyOriginSnapped ==
    (pc = "alloc" /\ ~same_extent) =>
        /\ dst_transform.a = RawGrid.transform.a
        /\ dst_transform.b = RawGrid.transform.b
        /\ dst_transform.d = RawGrid.transform.d
        /\ dst_transform.e = RawGrid.transform.e
        /\ dst_width = RawGrid.width
        /\ dst_height = RawGrid.height
        /\ metaHeap[2].transform = dst_transform
        /\ metaHeap[2].width = RawGrid.width
        /\ metaHeap[2].height = RawGrid.height

C16_Witness ==
    /\ pc = "alloc" /\ ~same_extent
    /\ RawGrid.transform.e < 0
    /\ dst_transform.c # RawGrid.transform.c
    /\ dst_transform.f # RawGrid.transform.f

\* the transform of the target grid of raster_list[i]
TargetTransformOf(i) ==
    IF same_extent THEN base_raster.transform
    ELSE SnapTransform(geodesyCalls[i].raw.transform, DstResolution(base_raster))

\* C17: the i-th call of the reprojection capability is the only one for
\* raster_list[i] and gets that raster's array, CRS and transform, the base
\* CRS, the raster's target transform, the base raster's nodata value as
\* source and as destination nodata, and the caller's resampling method;
\* every call of either capability gets the same destination CRS, and the
\* resolution stays the one taken from the base raster.
C17_ReprojectArguments ==
    /\ \A i \in 1..Len(reprojectCalls) :
          LET a == reprojectCalls[i].args
              r == raster_list.items[i]
          IN  /\ a.source = r.data
              /\ a.src_crs = r.crs
              /\ a.src_transform = r.transform
              /\ a.src_nodata = base_raster.nodata
              /\ a.dst_crs = base_raster.crs
              /\ a.dst_transform = TargetTransformOf(i)
              /\ a.dst_nodata = base_raster.nodata
              /\ a.resampling = resampling_method
    /\ Len(reprojectCalls) <= idx
    /\ pc \in {"append", "loop", "done"} => Len(reprojectCalls) = idx
    /\ pc = "done" => Len(reprojectCalls) = Len(raster_list.items)
    /\ \A i \in 1..Len(geodesyCalls) :
          /\ geodesyCalls[i].args.dst_crs = base_raster.crs
          /\ geodesyCalls[i].args.resolution = DstResolution(base_raster)
    /\ (~BadArguments /\ pc \notin {"start", "setup"}) =>
          /\ dst_crs = base_raster.crs
          /\ dst_resolution = DstResolution(base_raster)

C17_Witness ==
    /\ pc = "done" /\ ~same_extent /\ Len(reprojectCalls) = 2
    /\ resampling_method = "bilinear"
    /\ raster_list.items[2].nodata # base_raster.nodata
    /\ raster_list.items[2].crs # base_raster.crs
    /\ reprojectCalls[1].args.dst_transform # reprojectCalls[2].args.dst_transform

\* C18: every returned element after the first has an array with the base
\* raster's band count and a descriptor with the base raster's band count,
\* nodata value and CRS, whatever the other raster's own are.
C18_BaseBandsNodataCrs ==
    pc = "done" =>
        \A i \in 2..Len(result) :
            /\ result[i].arr.shape[1] = base_raster.count
            /\ Descriptor(i).count = base_raster.count
            /\ Descriptor(i).nodata = base_raster.nodata
            /\ Descriptor(i).crs = base_raster.crs

C18_Witness ==
    /\ pc = "done" /\ Len(result) >= 2
    /\ raster_list.items[1].count # base_raster.count
    /\ raster_list.items[1].nodata # base_raster.nodata
    /\ raster_list.items[1].crs # base_raster.crs

\* C19: the call reads the base raster once, then each raster of the list
\* once and in order; it never changes its arguments (the handles and their
\* metadata), and the array read from a raster is the same after
\* reprojection as before.
C19_HandlesOnlyRead ==
    /\ [](/\ \A j \in 1..Len(reads) : reads[j] = j - 1
          /\ pc = "done" => Len(reads) = Len(raster_list.items) + 1
          /\ pc \in {"warp", "append"} => src_array = raster.data)
    /\ [][/\ args' = args
          /\ pc = "warp" => src_array' = src_array]_vars

C19_Witness ==
    /\ pc = "done" /\ Len(reads) = 3 /\ ~same_extent
    /\ metaHeap[2] # Meta(base_raster)

=============================================================================
